---- MODULE Spec2Model ----
(***************************************************************************)
(* A model of the Sigma codec of src/lib.rs: SigmaResponse::decode,        *)
(* FeeData::from_slice, SigmaRequest::from_json_value and                  *)
(* SigmaRequest::encode.                                                   *)
(*                                                                         *)
(* Representation.  A byte is a number in 0..255 and a buffer (Bytes,      *)
(* &[u8]) is a sequence of bytes.  A Rust String is represented by its     *)
(* UTF-8 bytes, so String::as_bytes is the representation itself and       *)
(* String::from_utf8_lossy is a real conversion.  An unsigned integer      *)
(* (u16, u32, u64, usize) is represented by its canonical decimal digits,  *)
(* a non-empty sequence over 0..9 without leading zero (<<0>> is zero),    *)
(* because u32 and u64 values exceed the integers TLC computes with; a     *)
(* type's range is the bound on that numeral.  In a request a long stretch  *)
(* of one byte may be written as a single item Run(b, n), n copies of the  *)
(* byte b; ByteLen counts the bytes of such a buffer.  The buffers decode  *)
(* reads hold plain bytes only.                                            *)
(***************************************************************************)
EXTENDS Integers, Sequences, FiniteSets, TLC

VARIABLES
    input,     \* the argument of the operation under execution
    pc,        \* the position inside the operation
    data,      \* decode: the remaining buffer; from_json_value: the remaining map
    loc,       \* the locals of the operation (msg_len, tag, len, data_src, ...)
    resp,      \* the SigmaResponse / FeeData being built
    req,       \* the SigmaRequest being built or encoded
    buf,       \* encode: the body buffer
    result     \* the value returned, [tag |-> "none"] while running

vars == <<input, pc, data, loc, resp, req, buf, result>>

----------------------------------------------------------------------------
(* Sequences and numerals *)

Take(s, n) == SubSeq(s, 1, n)

Drop(s, n) == SubSeq(s, n + 1, Len(s))

Range(s) == {s[i] : i \in DOMAIN s}

\* the values a byte takes
ByteSpan == 256

\* n >= 2 copies of the byte b, as one item of a buffer
Run(b, n) == ByteSpan * n + b

\* the bytes an item stands for
Count(x) == IF x < ByteSpan THEN 1 ELSE x \div ByteSpan

\* buf.len(), String::len(): the number of bytes
RECURSIVE ByteLen(_)
ByteLen(s) == IF s = <<>> THEN 0 ELSE Count(Head(s)) + ByteLen(Tail(s))

RECURSIVE StripZeros(_)
StripZeros(ds) ==
    IF Len(ds) > 1 /\ ds[1] = 0 THEN StripZeros(Tail(ds)) ELSE ds

\* a <= b for canonical numerals
NumLE(a, b) ==
    \/ Len(a) < Len(b)
    \/ /\ Len(a) = Len(b)
       /\ \/ a = b
          \/ \E i \in 1..Len(a) :
                /\ a[i] < b[i]
                /\ \A j \in 1..(i - 1) : a[j] = b[j]

\* the value of a numeral of at most 9 digits as an integer
RECURSIVE NumToInt(_)
NumToInt(ds) ==
    IF ds = <<>> THEN 0 ELSE NumToInt(Take(ds, Len(ds) - 1)) * 10 + ds[Len(ds)]

Zero == <<0>>

U16Max == <<6, 5, 5, 3, 5>>

U32Max == <<4, 2, 9, 4, 9, 6, 7, 2, 9, 5>>

U64Max == <<1, 8, 4, 4, 6, 7, 4, 4, 0, 7, 3, 7, 0, 9, 5, 5, 1, 6, 1, 5>>

\* usize of a 64-bit target
UsizeMax == U64Max

IsDigit(b) == b \in 48..57

IsAscii(b) == b \in 0..127

\* format!("{}", n): the decimal digits as ASCII
FormatNum(n) == [i \in 1..Len(n) |-> n[i] + 48]

----------------------------------------------------------------------------
(* Results and errors *)

None == [tag |-> "none"]

Ok(v) == [tag |-> "ok", val |-> v]

Err(kind, name) == [tag |-> "err", kind |-> kind, field |-> name]

Panic == [tag |-> "panic"]

Bounds == Err("Bounds", "")

IncorrectTag == Err("IncorrectTag", "")

IncorrectData == Err("IncorrectData", "")

incorrect_field_data(name) == Err("IncorrectFieldData", name)

MissingField(name) == Err("MissingField", name)

----------------------------------------------------------------------------
(* Text: String::from_utf8_lossy, str::trim, str::parse *)

\* U+FFFD REPLACEMENT CHARACTER in UTF-8
Replacement == <<239, 191, 189>>

\* the range the second byte of a sequence led by b must lie in
SecondRange(b) ==
    CASE b = 224 -> 160..191
      [] b = 237 -> 128..159
      [] b = 240 -> 144..191
      [] b = 244 -> 128..143
      [] OTHER -> 128..191

\* [n |-> bytes consumed, valid |-> whether they are one well-formed character]
\* for the non-empty buffer s: the first chunk String::from_utf8_lossy sees
Utf8Chunk(s) ==
    LET b == s[1]
        has(i, rng) == Len(s) >= i /\ s[i] \in rng
    IN  IF b < 128 THEN [n |-> 1, valid |-> TRUE]
        ELSE IF b \in 194..223 THEN
            IF has(2, 128..191) THEN [n |-> 2, valid |-> TRUE]
            ELSE [n |-> 1, valid |-> FALSE]
        ELSE IF b \in 224..239 THEN
            IF ~has(2, SecondRange(b)) THEN [n |-> 1, valid |-> FALSE]
            ELSE IF ~has(3, 128..191) THEN [n |-> 2, valid |-> FALSE]
            ELSE [n |-> 3, valid |-> TRUE]
        ELSE IF b \in 240..244 THEN
            IF ~has(2, SecondRange(b)) THEN [n |-> 1, valid |-> FALSE]
            ELSE IF ~has(3, 128..191) THEN [n |-> 2, valid |-> FALSE]
            ELSE IF ~has(4, 128..191) THEN [n |-> 3, valid |-> FALSE]
            ELSE [n |-> 4, valid |-> TRUE]
        ELSE [n |-> 1, valid |-> FALSE]

\* String::from_utf8_lossy(bytes).to_string(): the String (its UTF-8 bytes)
RECURSIVE FromUtf8Lossy(_)
FromUtf8Lossy(s) ==
    IF s = <<>> THEN <<>>
    ELSE LET c == Utf8Chunk(s)
         IN  (IF c.valid THEN Take(s, c.n) ELSE Replacement)
                \o FromUtf8Lossy(Drop(s, c.n))

\* the characters with the Unicode White_Space property, in UTF-8
WhiteSpace ==
    {<<b>> : b \in (9..13) \cup {32}}
        \cup {<<194, 133>>, <<194, 160>>, <<225, 154, 128>>}
        \cup {<<226, 128, b>> : b \in (128..138) \cup {168, 169, 175}}
        \cup {<<226, 129, 159>>, <<227, 128, 128>>}

RECURSIVE TrimStart(_)
TrimStart(s) ==
    IF \E n \in 1..3 : n <= Len(s) /\ Take(s, n) \in WhiteSpace
    THEN LET n == CHOOSE n \in 1..3 : n <= Len(s) /\ Take(s, n) \in WhiteSpace
         IN  TrimStart(Drop(s, n))
    ELSE s

RECURSIVE TrimEnd(_)
TrimEnd(s) ==
    IF \E n \in 1..3 : n <= Len(s) /\ Drop(s, Len(s) - n) \in WhiteSpace
    THEN LET n == CHOOSE n \in 1..3 : n <= Len(s) /\ Drop(s, Len(s) - n) \in WhiteSpace
         IN  TrimEnd(Take(s, Len(s) - n))
    ELSE s

\* str::trim on a String
Trim(s) == TrimEnd(TrimStart(s))

\* the numeral written by a non-empty all-digit buffer
DecOf(s) == StripZeros([i \in 1..Len(s) |-> s[i] - 48])

AllDigits(s) == s # <<>> /\ \A i \in 1..Len(s) : IsDigit(s[i])

\* str::parse::<uN>() of core: an optional '+', then one or more digits, the
\* value within the type's range.  [ok |-> TRUE, val |-> numeral] or [ok |-> FALSE]
StrParse(s, max) ==
    LET digits == IF s # <<>> /\ s[1] = 43 THEN Tail(s) ELSE s
    IN  IF AllDigits(digits) /\ NumLE(DecOf(digits), max)
        THEN [ok |-> TRUE, val |-> DecOf(digits)]
        ELSE [ok |-> FALSE]

----------------------------------------------------------------------------
(* util: parse_ascii_bytes!, decode_bcd_x4, Tag *)

\* parse_ascii_bytes!(bytes, T, err): the decimal value of an all-digit slice
\* that fits T, else err
parse_ascii_bytes(bytes, max, err) ==
    IF AllDigits(bytes) /\ NumLE(DecOf(bytes), max)
    THEN Ok(DecOf(bytes))
    ELSE err

HiNibble(b) == b \div 16

LoNibble(b) == b % 16

\* decode_bcd_x4(&[b0, b1]): four decimal nibbles, high nibble first
decode_bcd_x4(b0, b1) ==
    IF \A n \in {HiNibble(b0), LoNibble(b0), HiNibble(b1), LoNibble(b1)} : n <= 9
    THEN Ok(HiNibble(b0) * 1000 + LoNibble(b0) * 100 + HiNibble(b1) * 10 + LoNibble(b1))
    ELSE Bounds

\* one byte of packed decimal
decode_bcd_x2(b) ==
    IF HiNibble(b) <= 9 /\ LoNibble(b) <= 9
    THEN Ok(HiNibble(b) * 10 + LoNibble(b))
    ELSE Bounds

\* the inverse: the two bytes of a number in 0..9999
encode_bcd_x4(n) ==
    <<((n \div 1000) % 10) * 16 + ((n \div 100) % 10), ((n \div 10) % 10) * 16 + (n % 10)>>

encode_bcd_x2(n) == ((n \div 10) % 10) * 16 + (n % 10)

Regular(i) == [variant |-> "Regular", id |-> i, sub |-> 0]

Iso(i) == [variant |-> "Iso", id |-> i, sub |-> 0]

IsoSubfield(i, si) == [variant |-> "IsoSubfield", id |-> i, sub |-> si]

\* the type marker bytes 'T' and 'I'
MarkerRegular == 84

MarkerIso == 73

\* Tag::decode(4 bytes): marker, packed-decimal id, subfield index
Tag_decode(src) ==
    LET id == decode_bcd_x4(src[2], src[3])
        sub == decode_bcd_x2(src[4])
    IN  IF src[1] = MarkerRegular THEN
            IF id.tag = "ok" THEN Ok(Regular(id.val)) ELSE id
        ELSE IF src[1] = MarkerIso THEN
            IF id.tag # "ok" THEN id
            ELSE IF src[4] = 0 THEN Ok(Iso(id.val))
            ELSE IF sub.tag = "ok" THEN Ok(IsoSubfield(id.val, sub.val))
            ELSE sub
        ELSE IncorrectTag

\* Tag::encode: the 4-byte header of a tag
Tag_encode(tag) ==
    <<(IF tag.variant = "Regular" THEN MarkerRegular ELSE MarkerIso)>>
        \o encode_bcd_x4(tag.id) \o <<encode_bcd_x2(tag.sub)>>

----------------------------------------------------------------------------
(* Buffers *)

\* Bytes::split_to(at): panics when at exceeds the length
split_to(bytes, at) ==
    IF at > Len(bytes) THEN Panic
    ELSE Ok([head |-> Take(bytes, at), rest |-> Drop(bytes, at)])

\* bytes_split_to without its length check
bytes_split_to_unchecked(bytes, at) == split_to(bytes, at)

bytes_split_to(bytes, at) ==
    IF Len(bytes) < at THEN Bounds ELSE split_to(bytes, at)

\* &data[from..to]: panics when the range is not inside the slice
Slice(bytes, from, to) ==
    IF from <= to /\ to <= Len(bytes) THEN Ok(SubSeq(bytes, from + 1, to)) ELSE Panic

----------------------------------------------------------------------------
(* FeeData *)

FeeData(reason, currency, amount) ==
    [reason |-> reason, currency |-> currency, amount |-> amount]

\* from_slice asking for more than 8 bytes, as its error message words it
FeeData_from_slice_Longer(bytes) ==
    IF Len(bytes) > 8 THEN
        LET r == Slice(bytes, 0, 4)
            c == Slice(bytes, 4, 7)
            a == Slice(bytes, 7, Len(bytes))
            reason == parse_ascii_bytes(r.val, U16Max, incorrect_field_data("FeeData.reason"))
            currency == parse_ascii_bytes(c.val, U16Max, incorrect_field_data("FeeData.currency"))
            amount == parse_ascii_bytes(a.val, U64Max, incorrect_field_data("FeeData.amount"))
        IN  IF r.tag # "ok" THEN r
            ELSE IF reason.tag # "ok" THEN reason
            ELSE IF c.tag # "ok" THEN c
            ELSE IF currency.tag # "ok" THEN currency
            ELSE IF a.tag # "ok" THEN a
            ELSE IF amount.tag # "ok" THEN amount
            ELSE Ok(FeeData(reason.val, currency.val, amount.val))
    ELSE IncorrectData

FeeData_from_slice(bytes) ==
    IF Len(bytes) >= 8 THEN
        LET r == Slice(bytes, 0, 4)
            c == Slice(bytes, 4, 7)
            a == Slice(bytes, 7, Len(bytes))
            reason == parse_ascii_bytes(r.val, U16Max, incorrect_field_data("FeeData.reason"))
            currency == parse_ascii_bytes(c.val, U16Max, incorrect_field_data("FeeData.currency"))
            amount == parse_ascii_bytes(a.val, U64Max, incorrect_field_data("FeeData.amount"))
        IN  IF r.tag # "ok" THEN r
            ELSE IF reason.tag # "ok" THEN reason
            ELSE IF c.tag # "ok" THEN c
            ELSE IF currency.tag # "ok" THEN currency
            ELSE IF a.tag # "ok" THEN a
            ELSE IF amount.tag # "ok" THEN amount
            ELSE Ok(FeeData(reason.val, currency.val, amount.val))
    ELSE IncorrectData

----------------------------------------------------------------------------
(* SigmaResponse *)

NoString == [some |-> FALSE, val |-> <<>>]

Some(s) == [some |-> TRUE, val |-> s]

SigmaResponse_new(mti, auth_serno, reason) ==
    [mti |-> mti, auth_serno |-> auth_serno, reason |-> reason,
     fees |-> <<>>, adata |-> NoString]

\* "0100"
DefaultMti == <<48, 49, 48, 48>>

\* the locals of decode, with the count of the iterations of its loop entered
\* so far (iters) and the bytes that were left when the last was entered (left)
NoLocals ==
    [msg_len |-> 0, tag |-> Regular(0), len |-> 0, data_src |-> <<>>,
     iters |-> 0, left |-> 0]

NoResponse == SigmaResponse_new(<<>>, Zero, Zero)

NoRequest ==
    [saf |-> <<>>, source |-> <<>>, mti |-> <<>>, auth_serno |-> Zero,
     tags |-> <<>>, iso_fields |-> <<>>, iso_subfields |-> <<>>]

\* the match, dispatching on the numeric id whatever the variant
MatchTag_AnyVariant(r, tag, data_src) ==
    IF tag.id = 31 THEN
        LET v == parse_ascii_bytes(data_src, U32Max, incorrect_field_data("reason"))
        IN  IF v.tag = "ok" THEN Ok([r EXCEPT !.reason = v.val]) ELSE v
    ELSE IF tag.id = 32 THEN
        LET f == FeeData_from_slice(data_src)
        IN  IF f.tag = "ok" THEN Ok([r EXCEPT !.fees = Append(@, f.val)]) ELSE f
    ELSE IF tag.id = 48 THEN
        Ok([r EXCEPT !.adata = Some(FromUtf8Lossy(data_src))])
    ELSE Ok(r)

\* the match, pushing a fee at the front and keeping the first adata
MatchTag_Reordered(r, tag, data_src) ==
    IF tag = Regular(31) THEN
        LET v == parse_ascii_bytes(data_src, U32Max, incorrect_field_data("reason"))
        IN  IF v.tag = "ok" THEN Ok([r EXCEPT !.reason = v.val]) ELSE v
    ELSE IF tag = Regular(32) THEN
        LET f == FeeData_from_slice(data_src)
        IN  IF f.tag = "ok" THEN Ok([r EXCEPT !.fees = <<f.val>> \o @]) ELSE f
    ELSE IF tag = Regular(48) THEN
        IF r.adata.some THEN Ok(r)
        ELSE Ok([r EXCEPT !.adata = Some(FromUtf8Lossy(data_src))])
    ELSE Ok(r)

\* the match, leaving reason alone when its payload does not parse
MatchTag_LenientReason(r, tag, data_src) ==
    IF tag = Regular(31) THEN
        LET v == parse_ascii_bytes(data_src, U32Max, incorrect_field_data("reason"))
        IN  IF v.tag = "ok" THEN Ok([r EXCEPT !.reason = v.val]) ELSE Ok(r)
    ELSE IF tag = Regular(32) THEN
        LET f == FeeData_from_slice(data_src)
        IN  IF f.tag = "ok" THEN Ok([r EXCEPT !.fees = Append(@, f.val)]) ELSE f
    ELSE IF tag = Regular(48) THEN
        Ok([r EXCEPT !.adata = Some(FromUtf8Lossy(data_src))])
    ELSE Ok(r)

\* the match on the tag of one field: Ok(the response after it) or the error
MatchTag(r, tag, data_src) ==
    IF tag = Regular(31) THEN
        LET v == parse_ascii_bytes(data_src, U32Max, incorrect_field_data("reason"))
        IN  IF v.tag = "ok" THEN Ok([r EXCEPT !.reason = v.val]) ELSE v
    ELSE IF tag = Regular(32) THEN
        LET f == FeeData_from_slice(data_src)
        IN  IF f.tag = "ok" THEN Ok([r EXCEPT !.fees = Append(@, f.val)]) ELSE f
    ELSE IF tag = Regular(48) THEN
        Ok([r EXCEPT !.adata = Some(FromUtf8Lossy(data_src))])
    ELSE Ok(r)

\* return Err(e) / a panic: the operation ends without a value
Abort(e) ==
    /\ pc' = "done"
    /\ result' = e

\* let msg_len = parse_ascii_bytes!(&bytes_split_to(&mut data, 5)?, usize, ...)?
DecodeMsgLen ==
    /\ pc = "msg_len"
    /\ LET s == bytes_split_to(data, 5)
           n == parse_ascii_bytes(s.val.head, UsizeMax, incorrect_field_data("message length"))
       IN  IF s.tag # "ok" THEN Abort(s) /\ UNCHANGED <<data, loc>>
           ELSE IF n.tag # "ok" THEN Abort(n) /\ data' = s.val.rest /\ UNCHANGED loc
           ELSE /\ data' = s.val.rest
                /\ loc' = [loc EXCEPT !.msg_len = NumToInt(n.val)]
                /\ pc' = "body"
                /\ UNCHANGED result
    /\ UNCHANGED <<input, resp, req, buf>>

\* let mut data = bytes_split_to(&mut data, msg_len)?
DecodeBody ==
    /\ pc = "body"
    /\ LET s == bytes_split_to(data, loc.msg_len)
       IN  IF s.tag # "ok" THEN Abort(s) /\ UNCHANGED data
           ELSE data' = s.val.head /\ pc' = "mti" /\ UNCHANGED result
    /\ UNCHANGED <<input, loc, resp, req, buf>>

\* resp.mti = String::from_utf8_lossy(&bytes_split_to(&mut data, 4)?).to_string()
DecodeMti ==
    /\ pc = "mti"
    /\ LET s == bytes_split_to(data, 4)
       IN  IF s.tag # "ok" THEN Abort(s) /\ UNCHANGED <<data, resp>>
           ELSE /\ data' = s.val.rest
                /\ resp' = [resp EXCEPT !.mti = FromUtf8Lossy(s.val.head)]
                /\ pc' = "serno"
                /\ UNCHANGED result
    /\ UNCHANGED <<input, loc, req, buf>>

\* resp.auth_serno = String::from_utf8_lossy(&bytes_split_to(&mut data, 10)?)
\*     .trim().parse::<u64>().map_err(..)?
DecodeSerno ==
    /\ pc = "serno"
    /\ LET s == bytes_split_to(data, 10)
           v == StrParse(Trim(FromUtf8Lossy(s.val.head)), U64Max)
       IN  IF s.tag # "ok" THEN Abort(s) /\ UNCHANGED <<data, resp>>
           ELSE IF ~v.ok THEN
                Abort(incorrect_field_data("Serno")) /\ data' = s.val.rest /\ UNCHANGED resp
           ELSE /\ data' = s.val.rest
                /\ resp' = [resp EXCEPT !.auth_serno = v.val]
                /\ pc' = "loop"
                /\ UNCHANGED result
    /\ UNCHANGED <<input, loc, req, buf>>

\* while !data.is_empty() { .. } Ok(resp)
DecodeLoop ==
    /\ pc = "loop"
    /\ IF data = <<>>
       THEN pc' = "done" /\ result' = Ok(resp) /\ UNCHANGED loc
       ELSE /\ pc' = "tag"
            /\ loc' = [loc EXCEPT !.iters = @ + 1, !.left = Len(data)]
            /\ UNCHANGED result
    /\ UNCHANGED <<input, data, resp, req, buf>>

\* a tag decoded from the first 4 bytes, which stay in the buffer
DecodeTag_Peek ==
    /\ pc = "tag"
    /\ LET s == bytes_split_to(data, 4)
           t == Tag_decode(s.val.head)
       IN  IF s.tag # "ok" THEN Abort(s) /\ UNCHANGED loc
           ELSE IF t.tag # "ok" THEN Abort(t) /\ UNCHANGED loc
           ELSE /\ loc' = [loc EXCEPT !.tag = t.val]
                /\ pc' = "len"
                /\ UNCHANGED result
    /\ UNCHANGED <<input, data, resp, req, buf>>

\* let tag = Tag::decode(bytes_split_to(&mut data, 4)?)?
DecodeTag ==
    /\ pc = "tag"
    /\ LET s == bytes_split_to(data, 4)
           t == Tag_decode(s.val.head)
       IN  IF s.tag # "ok" THEN Abort(s) /\ UNCHANGED <<data, loc>>
           ELSE IF t.tag # "ok" THEN Abort(t) /\ data' = s.val.rest /\ UNCHANGED loc
           ELSE /\ data' = s.val.rest
                /\ loc' = [loc EXCEPT !.tag = t.val]
                /\ pc' = "len"
                /\ UNCHANGED result
    /\ UNCHANGED <<input, resp, req, buf>>

\* let len = decode_bcd_x4(&[len_src[0], len_src[1]])? on bytes_split_to(&mut data, 2)?
DecodeLen ==
    /\ pc = "len"
    /\ LET s == bytes_split_to(data, 2)
           n == decode_bcd_x4(s.val.head[1], s.val.head[2])
       IN  IF s.tag # "ok" THEN Abort(s) /\ UNCHANGED <<data, loc>>
           ELSE IF n.tag # "ok" THEN Abort(n) /\ data' = s.val.rest /\ UNCHANGED loc
           ELSE /\ data' = s.val.rest
                /\ loc' = [loc EXCEPT !.len = n.val]
                /\ pc' = "data"
                /\ UNCHANGED result
    /\ UNCHANGED <<input, resp, req, buf>>

\* let data_src = bytes_split_to(&mut data, len as usize)?
DecodeData ==
    /\ pc = "data"
    /\ LET s == bytes_split_to(data, loc.len)
       IN  IF s.tag # "ok" THEN Abort(s) /\ UNCHANGED <<data, loc>>
           ELSE /\ data' = s.val.rest
                /\ loc' = [loc EXCEPT !.data_src = s.val.head]
                /\ pc' = "match"
                /\ UNCHANGED result
    /\ UNCHANGED <<input, resp, req, buf>>

\* match tag { .. }
DecodeMatch ==
    /\ pc = "match"
    /\ LET m == MatchTag(resp, loc.tag, loc.data_src)
       IN  IF m.tag # "ok" THEN Abort(m) /\ UNCHANGED resp
           ELSE resp' = m.val /\ pc' = "loop" /\ UNCHANGED result
    /\ UNCHANGED <<input, data, loc, req, buf>>

DecodeNext ==
    \/ DecodeMsgLen
    \/ DecodeBody
    \/ DecodeMti
    \/ DecodeSerno
    \/ DecodeLoop
    \/ DecodeTag
    \/ DecodeLen
    \/ DecodeData
    \/ DecodeMatch

----------------------------------------------------------------------------
(* The responses decode is run on: the wire layout of the comment in       *)
(* decode's loop and of the tests, framed well and framed badly            *)

\* the ASCII text of a sequence of decimal digits
Ascii(ds) == [i \in 1..Len(ds) |-> ds[i] + 48]

\* | T | tag id | 00 | tag data len | data |
Field(tag, payload) ==
    [hdr |-> Tag_encode(tag), len |-> encode_bcd_x4(Len(payload)),
     payload |-> payload, tag |-> tag]

Wire(f) == f.hdr \o f.len \o f.payload

RECURSIVE WireAll(_)
WireAll(fs) == IF fs = <<>> THEN <<>> ELSE Wire(Head(fs)) \o WireAll(Tail(fs))

\* the 5 ASCII digits of a length below 100000
Prefix(n) ==
    Ascii(<<(n \div 10000) % 10, (n \div 1000) % 10, (n \div 100) % 10,
            (n \div 10) % 10, n % 10>>)

\* the most fields a generated response holds
MaxFields == 2

\* fields whose tag header and length decode
FramedFields ==
    { Field(Regular(31), Ascii(<<8, 4, 9, 5>>)),
      Field(Regular(31), Ascii(<<0, 7>>)),
      Field(Regular(31), <<65, 66>>),
      Field(Regular(31), Ascii(Take(U32Max, 9)) \o <<54>>),
      Field(Regular(31), <<>>),
      Field(Regular(32), Ascii(<<8, 1, 1, 6, 9, 7, 8, 3, 0, 0>>)),
      Field(Regular(32), Ascii(<<0, 0, 0, 1, 0, 0, 2, 0>>)),
      Field(Regular(32), Ascii(<<8, 1, 1, 6>>)),
      Field(Regular(48), <<104, 105>>),
      Field(Regular(48), <<255>>),
      Field(Iso(31), Ascii(<<1, 2>>)),
      Field(IsoSubfield(32, 1), <<65>>),
      Field(Regular(7), <<>>) }

\* fields whose tag header or length does not decode
UnframedFields ==
    { [hdr |-> <<88, 0, 49, 0>>, len |-> <<0, 1>>, payload |-> <<65>>, tag |-> Regular(31)],
      [hdr |-> <<84, 0, 58, 0>>, len |-> <<0, 1>>, payload |-> <<65>>, tag |-> Regular(0)],
      [hdr |-> <<84, 0, 49, 0>>, len |-> <<0, 10>>, payload |-> <<65>>, tag |-> Regular(31)] }

\* the fields of the responses that are cut at every position
CutFields ==
    { Field(Regular(31), Ascii(<<8, 4, 9, 5>>)),
      Field(Regular(32), Ascii(<<8, 1, 1, 6, 9, 7, 8, 3, 0, 0>>)),
      Field(Regular(48), <<104, 105>>),
      Field(Iso(31), Ascii(<<1, 2>>)),
      Field(Regular(7), <<>>) }

\* mti "0110" and a 10-byte serial
GoodHeader == Ascii(<<0, 1, 1, 0>>) \o Ascii(<<4, 0, 0, 7, 0, 4, 0, 9, 7, 8>>)

OtherHeaders ==
    { Ascii(<<0, 1, 1, 0>>) \o Ascii(<<1, 2, 3, 1, 2, 3>>) \o <<32, 32, 32, 32>>,
      Ascii(<<0, 1, 1, 0>>) \o <<88, 89, 90>> \o Ascii(<<7, 0, 4, 0, 9, 7, 8>>),
      <<48, 255, 49, 48>> \o <<32, 43>> \o Ascii(<<0, 0, 0, 0, 0, 0, 0, 9>>) }

\* mti "0110" and the serials "+000000005", "-000000005", 10 blanks,
\* "12 3456789", a tab, "12345", U+0085 and 2 blanks, and "123456789" before
\* a byte that is no UTF-8
SerialHeaders ==
    { Ascii(<<0, 1, 1, 0>>) \o s : s \in
        { <<43>> \o Ascii(<<0, 0, 0, 0, 0, 0, 0, 0, 5>>),
          <<45>> \o Ascii(<<0, 0, 0, 0, 0, 0, 0, 0, 5>>),
          <<32, 32, 32, 32, 32, 32, 32, 32, 32, 32>>,
          Ascii(<<1, 2>>) \o <<32>> \o Ascii(<<3, 4, 5, 6, 7, 8, 9>>),
          <<9>> \o Ascii(<<1, 2, 3, 4, 5>>) \o <<194, 133, 32, 32>>,
          Ascii(<<1, 2, 3, 4, 5, 6, 7, 8, 9>>) \o <<255>> } }

Response(bytes, fields, exact) == [bytes |-> bytes, fields |-> fields, exact |-> exact]

Body(header, fields) == header \o WireAll(fields)

Whole(body) == Prefix(Len(body)) \o body

\* the response framed exactly, or nearly
NearFramings(header, fields) ==
    LET body == Body(header, fields)
    IN  { Response(Whole(body), fields, TRUE),
          Response(Whole(body) \o <<0>>, fields, FALSE),
          Response(Prefix(Len(body) + 1) \o body, fields, FALSE),
          Response(Prefix(Len(body) - 1) \o body, fields, FALSE),
          Response(<<48, 48, 32, 49, 52>> \o body, fields, FALSE) }

\* the response with every shorter declared length, and cut short itself
CutFramings(header, fields) ==
    LET body == Body(header, fields)
    IN  {Response(Prefix(n) \o body, fields, FALSE) : n \in 0..(Len(body) - 1)}
            \cup {Response(Take(Whole(body), k), fields, FALSE) :
                    k \in (0..5) \cup {Len(body) + 4}}

DecodeStart(in) ==
    /\ input = in
    /\ pc = "msg_len"
    /\ data = in.bytes
    /\ loc = NoLocals
    /\ resp = SigmaResponse_new(DefaultMti, Zero, Zero)
    /\ req = NoRequest
    /\ buf = <<>>
    /\ result = None

DecodeInit ==
    \/ \E n \in 0..MaxFields : \E fs \in [1..n -> FramedFields] :
          \E in \in NearFramings(GoodHeader, fs) : DecodeStart(in)
    \/ \E n \in 0..(MaxFields - 1) : \E fs \in [1..n -> FramedFields] :
          \E f \in UnframedFields :
             \E in \in NearFramings(GoodHeader, fs \o <<f>>) : DecodeStart(in)
    \/ \E n \in 0..MaxFields : \E fs \in [1..n -> CutFields] :
          \E in \in CutFramings(GoodHeader, fs) : DecodeStart(in)
    \/ \E h \in OtherHeaders : \E n \in 0..1 : \E fs \in [1..n -> FramedFields] :
          \E in \in NearFramings(h, fs) \cup CutFramings(h, fs) : DecodeStart(in)
    \/ \E h \in SerialHeaders : \E n \in 0..1 : \E fs \in [1..n -> FramedFields] :
          \E in \in NearFramings(h, fs) : DecodeStart(in)

SpecDecode == DecodeInit /\ [][DecodeNext]_vars

----------------------------------------------------------------------------
(* FeeData::from_slice on its own *)

FeeReasons ==
    { Ascii(<<8, 1, 1, 6>>), Ascii(<<0, 0, 0, 1>>), Ascii(<<9, 9, 9, 9>>),
      <<56, 49, 32, 54>>, <<43, 56, 49, 49>>, <<65, 49, 49, 54>> }

FeeCurrencies ==
    { Ascii(<<9, 7, 8>>), Ascii(<<0, 0, 2>>), <<54, 52, 32>>, <<48, 120, 51>> }

FeeAmounts ==
    { Ascii(<<3, 0, 0>>), Ascii(<<0>>), Ascii(U64Max), Ascii(Take(U64Max, 19)) \o <<54>>,
      Ascii(<<0, 0, 0, 0, 0, 0, 0, 0, 0, 0, 0, 0, 0, 0, 0, 0, 0, 0, 0, 0, 3, 0, 0>>),
      <<51, 97>>, <<32, 53>>, <<255>>, <<>> }

FeeInit ==
    /\ \/ \E r \in FeeReasons, c \in FeeCurrencies, a \in FeeAmounts :
             input = [bytes |-> r \o c \o a]
       \/ \E k \in 0..9 :
             input = [bytes |-> Take(Ascii(<<8, 1, 1, 6, 9, 7, 8, 3, 0, 0>>), k)]
    /\ pc = "from_slice"
    /\ data = <<>>
    /\ loc = NoLocals
    /\ resp = NoResponse
    /\ req = NoRequest
    /\ buf = <<>>
    /\ result = None

FeeFromSlice ==
    /\ pc = "from_slice"
    /\ pc' = "done"
    /\ result' = FeeData_from_slice(input.bytes)
    /\ UNCHANGED <<input, data, loc, resp, req, buf>>

SpecFee == FeeInit /\ [][FeeFromSlice]_vars

Fits(s, max) == AllDigits(s) /\ NumLE(DecOf(s), max)

\* C5: from_slice fails with IncorrectData on a payload shorter than 8
\* bytes; on a longer one it reads bytes 0..4 as reason, 4..7 as currency and
\* the rest as amount, returns the three decimal values when each is all
\* digits and fits its type (u16, u16, u64) and otherwise fails with
\* IncorrectFieldData naming the first of FeeData.reason, FeeData.currency,
\* FeeData.amount that does not.
C5_FeeDataLayout ==
    pc = "done" =>
        LET p == input.bytes
            r == SubSeq(p, 1, 4)
            c == SubSeq(p, 5, 7)
            a == SubSeq(p, 8, Len(p))
        IN  result =
              IF Len(p) < 8 THEN IncorrectData
              ELSE IF ~Fits(r, U16Max) THEN incorrect_field_data("FeeData.reason")
              ELSE IF ~Fits(c, U16Max) THEN incorrect_field_data("FeeData.currency")
              ELSE IF ~Fits(a, U64Max) THEN incorrect_field_data("FeeData.amount")
              ELSE Ok(FeeData(DecOf(r), DecOf(c), DecOf(a)))

\* a payload of exactly 8 bytes, read as reason 1, currency 2, amount 0
C5_Witness ==
    /\ pc = "done"
    /\ Len(input.bytes) = 8
    /\ result = Ok(FeeData(<<1>>, <<2>>, Zero))

----------------------------------------------------------------------------
(* serde_json::Value and BTreeMap *)

JString(s) == [t |-> "String", s |-> s, n |-> Zero]

\* a number serde_json holds as u64
JPosInt(n) == [t |-> "PosInt", s |-> <<>>, n |-> n]

\* the negative number -n, which serde_json holds as i64
JNegInt(n) == [t |-> "NegInt", s |-> <<>>, n |-> n]

\* a value of kind NegInt, Float, Bool, Null, Array or Object
JOther(t) == [t |-> t, s |-> <<>>, n |-> Zero]

as_str(x) == IF x.t = "String" THEN Some(x.s) ELSE NoString

as_u64(x) == IF x.t = "PosInt" THEN [some |-> TRUE, val |-> x.n] ELSE [some |-> FALSE, val |-> Zero]

\* Map::remove: the map without the key
Remove(m, k) == [x \in (DOMAIN m) \ {k} |-> m[x]]

\* the order of the keys u16 (<<id>>) and (u16, u8) (<<id, sub>>)
KeyLess(a, b) ==
    \/ a[1] < b[1]
    \/ a[1] = b[1] /\ Len(a) = 2 /\ a[2] < b[2]

Entry(k, v) == [k |-> k, v |-> v]

\* an insert that keeps the order of insertion
BTreeInsert_Append(m, k, v) ==
    IF \E i \in DOMAIN m : m[i].k = k
    THEN [i \in DOMAIN m |-> IF m[i].k = k THEN Entry(k, v) ELSE m[i]]
    ELSE Append(m, Entry(k, v))

\* BTreeMap::insert on a map held as the sequence of its entries in key order
BTreeInsert(m, k, v) ==
    IF \E i \in DOMAIN m : m[i].k = k
    THEN [i \in DOMAIN m |-> IF m[i].k = k THEN Entry(k, v) ELSE m[i]]
    ELSE LET n == Cardinality({i \in DOMAIN m : KeyLess(m[i].k, k)})
         IN  Take(m, n) \o <<Entry(k, v)>> \o Drop(m, n)

----------------------------------------------------------------------------
(* SigmaRequest::from_json_value *)

SigmaRequest_new(saf, source, mti, auth_serno) ==
    [saf |-> saf, source |-> source, mti |-> mti, auth_serno |-> auth_serno,
     tags |-> <<>>, iso_fields |-> <<>>, iso_subfields |-> <<>>]

\* the names of the fields the model's inputs use, as characters
KeyChars(name) ==
    CASE name = "T0001" -> <<84, 48, 48, 48, 49>>
      [] name = "T0022" -> <<84, 48, 48, 50, 50>>
      [] name = "i002" -> <<105, 48, 48, 50>>
      [] name = "i041" -> <<105, 48, 52, 49>>
      [] name = "T0002" -> <<84, 48, 48, 48, 50>>
      [] name = "T0003" -> <<84, 48, 48, 48, 51>>
      [] name = "T0004" -> <<84, 48, 48, 48, 52>>
      [] name = "T0005" -> <<84, 48, 48, 48, 53>>
      [] name = "T0006" -> <<84, 48, 48, 48, 54>>
      [] name = "T0007" -> <<84, 48, 48, 48, 55>>
      [] name = "T001" -> <<84, 48, 48, 49>>
      [] name = "X0001" -> <<88, 48, 48, 48, 49>>
      [] name = "i0a2" -> <<105, 48, 97, 50>>

\* Tag::from_str: 'T' and 4 digits, or 'i' and 3 digits
Tag_from_str(name) ==
    LET c == KeyChars(name)
    IN  IF Len(c) = 5 /\ c[1] = 84 /\ AllDigits(Tail(c))
        THEN Ok(Regular(NumToInt(DecOf(Tail(c)))))
        ELSE IF Len(c) = 4 /\ c[1] = 105 /\ AllDigits(Tail(c))
        THEN Ok(Iso(NumToInt(DecOf(Tail(c)))))
        ELSE IncorrectTag

\* util::gen_random_auth_serno: some non-zero u64
RandomSernos == {<<7>>, <<7, 8, 7, 7, 7, 0, 6, 9, 6, 5, 6, 8, 7, 1, 9, 2, 0, 2, 3>>}

\* fill_req_field! reporting a value of the wrong type as a missing field
fill_req_field_Untyped(d, pname) ==
    IF pname \in DOMAIN d /\ as_str(d[pname]).some
    THEN Ok(as_str(d[pname]).val)
    ELSE MissingField(pname)

\* fill_req_field!: the string to store, or the error
fill_req_field(d, pname) ==
    IF pname \in DOMAIN d THEN
        IF as_str(d[pname]).some THEN Ok(as_str(d[pname]).val)
        ELSE incorrect_field_data(pname)
    ELSE MissingField(pname)

\* let data = data.as_object_mut().ok_or(..)?; let mut req = Self::new("N", "X", "0100", 0)
FromJsonObject ==
    /\ pc = "object"
    /\ IF input.t # "Object" THEN Abort(IncorrectData) /\ UNCHANGED <<data, req>>
       ELSE /\ data' = input.m
            /\ req' = SigmaRequest_new(<<78>>, <<88>>, DefaultMti, Zero)
            /\ pc' = "SAF"
            /\ UNCHANGED result
    /\ UNCHANGED <<input, loc, resp, buf>>

Fill(pname, fname, next) ==
    /\ pc = pname
    /\ LET v == fill_req_field(data, pname)
       IN  IF v.tag # "ok" THEN Abort(v) /\ UNCHANGED req
           ELSE req' = [req EXCEPT ![fname] = v.val] /\ pc' = next /\ UNCHANGED result
    /\ data' = Remove(data, pname)
    /\ UNCHANGED <<input, loc, resp, buf>>

FromJsonSaf == Fill("SAF", "saf", "SRC")

FromJsonSrc == Fill("SRC", "source", "MTI")

FromJsonMti == Fill("MTI", "mti", "Serno")

\* the value of a present Serno: Ok(u64) or the error
SernoOf(x) ==
    IF as_str(x).some THEN
        LET v == StrParse(as_str(x).val, U64Max)
        IN  IF v.ok THEN Ok(v.val) ELSE incorrect_field_data("Serno")
    ELSE IF as_u64(x).some THEN Ok(as_u64(x).val)
    ELSE incorrect_field_data("Serno")

\* match data.remove("Serno") { .. }
FromJsonSerno ==
    /\ pc = "Serno"
    /\ IF "Serno" \in DOMAIN data THEN
            LET v == SernoOf(data["Serno"])
            IN  IF v.tag # "ok" THEN Abort(v) /\ UNCHANGED <<req, loc>>
                ELSE /\ req' = [req EXCEPT !.auth_serno = v.val]
                     /\ loc' = [todo |-> (DOMAIN data) \ {"Serno"}]
                     /\ pc' = "fields"
                     /\ UNCHANGED result
       ELSE /\ \E v \in RandomSernos : req' = [req EXCEPT !.auth_serno = v]
            /\ loc' = [todo |-> DOMAIN data]
            /\ pc' = "fields"
            /\ UNCHANGED result
    /\ data' = Remove(data, "Serno")
    /\ UNCHANGED <<input, resp, buf>>

\* a content that falls back to the JSON text of the value (here of null)
ContentOf_AnyValue(name, field_data) ==
    IF as_str(field_data).some THEN Ok(as_str(field_data).val)
    ELSE IF as_u64(field_data).some THEN Ok(FormatNum(as_u64(field_data).val))
    ELSE Ok(<<110, 117, 108, 108>>)

\* the string stored for a field: Ok(content) or the error naming the field
ContentOf(name, field_data) ==
    IF as_str(field_data).some THEN Ok(as_str(field_data).val)
    ELSE IF as_u64(field_data).some THEN Ok(FormatNum(as_u64(field_data).val))
    ELSE incorrect_field_data(name)

\* match tag { Tag::Regular(i) => req.tags.insert(i, content), .. }
InsertField(r, tag, content) ==
    IF tag.variant = "Regular" THEN
        [r EXCEPT !.tags = BTreeInsert(@, <<tag.id>>, content)]
    ELSE IF tag.variant = "Iso" THEN
        [r EXCEPT !.iso_fields = BTreeInsert(@, <<tag.id>>, content)]
    ELSE [r EXCEPT !.iso_subfields = BTreeInsert(@, <<tag.id, tag.sub>>, content)]

\* for (name, field_data) in data.iter() { .. } Ok(req): one iteration, on any
\* of the entries not yet visited, or the return
FromJsonField ==
    /\ pc = "fields"
    /\ IF loc.todo = {} THEN
            /\ pc' = "done"
            /\ result' = Ok(req)
            /\ UNCHANGED <<req, loc>>
       ELSE \E name \in loc.todo :
            LET tag == Tag_from_str(name)
                content == ContentOf(name, data[name])
            IN  IF tag.tag # "ok" THEN Abort(tag) /\ UNCHANGED <<req, loc>>
                ELSE IF content.tag # "ok" THEN Abort(content) /\ UNCHANGED <<req, loc>>
                ELSE /\ req' = InsertField(req, tag.val, content.val)
                     /\ loc' = [todo |-> loc.todo \ {name}]
                     /\ UNCHANGED <<pc, result>>
    /\ UNCHANGED <<input, data, resp, buf>>

FromJsonNext ==
    \/ FromJsonObject
    \/ FromJsonSaf
    \/ FromJsonSrc
    \/ FromJsonMti
    \/ FromJsonSerno
    \/ FromJsonField

\* the most named fields, besides SAF, SRC, MTI and Serno, of a generated input
MaxExtra == 2

Absent == JOther("Absent")

\* the entries of f that are present
Present(f) == [k \in {x \in DOMAIN f : f[x] # Absent} |-> f[k]]

MandatoryChoices(good) == {Absent, JString(good), JPosInt(<<1, 2, 3, 4>>), JOther("Null")}

PlainSernos == {Absent, JPosInt(<<6, 0, 0, 7, 0, 4, 0, 9, 7, 9>>)}

SernoChoices ==
    PlainSernos \cup
    { JPosInt(U64Max),
      JString(Ascii(<<0, 6, 0, 0, 7, 0, 4, 0, 9, 7>>)),
      JString(Ascii(U64Max)),
      JString(Ascii(Take(U64Max, 19)) \o <<54>>),
      JString(<<43, 53>>),
      JString(<<45, 49>>),
      JString(<<49, 50, 97>>),
      JString(<<32, 55>>),
      JString(<<>>),
      JOther("NegInt"), JOther("Float"), JOther("Bool"), JOther("Null"),
      JOther("Array"), JOther("Object") }

ExtraKeys == {"T0001", "T0022", "i002", "i041", "T001", "X0001", "i0a2"}

ExtraValues ==
    {JString(<<67>>), JString(<<>>), JPosInt(<<6, 4, 3>>), JNegInt(<<5>>), JOther("Null")}

JsonObject(m) == [t |-> "Object", m |-> m]

FromJsonStart(in) ==
    /\ input = in
    /\ pc = "object"
    /\ data = <<>>
    /\ loc = [todo |-> {}]
    /\ resp = NoResponse
    /\ req = NoRequest
    /\ buf = <<>>
    /\ result = None

\* the object with the given SAF, SRC, MTI and Serno and the named fields g
Input(a, b, c, se, g) ==
    JsonObject(Present(
        [k \in {"SAF", "SRC", "MTI", "Serno"} \cup DOMAIN g |->
            CASE k = "SAF" -> a [] k = "SRC" -> b [] k = "MTI" -> c
              [] k = "Serno" -> se [] OTHER -> g[k]]))

Named(n) == UNION {[K -> ExtraValues] : K \in {X \in SUBSET ExtraKeys : Cardinality(X) <= n}}

FromJsonInit ==
    \/ \E t \in {"Null", "Array", "String", "PosInt", "Bool"} :
          FromJsonStart([t |-> t, m |-> <<>>])
    \/ \E a \in MandatoryChoices(<<89>>), b \in MandatoryChoices(<<77>>),
          c \in MandatoryChoices(Ascii(<<0, 2, 0, 0>>)), se \in PlainSernos :
          FromJsonStart(Input(a, b, c, se, <<>>))
    \/ \E se \in SernoChoices : \E g \in Named(1) :
          FromJsonStart(Input(JString(<<89>>), JString(<<77>>),
                              JString(Ascii(<<0, 2, 0, 0>>)), se, g))
    \/ \E se \in PlainSernos : \E g \in Named(MaxExtra) :
          FromJsonStart(Input(JString(<<89>>), JString(<<77>>),
                              JString(Ascii(<<0, 2, 0, 0>>)), se, g))

SpecJson == FromJsonInit /\ [][FromJsonNext]_vars

----------------------------------------------------------------------------
(* SigmaRequest::encode *)

\* the numeral of a natural number
RECURSIVE NumOfInt(_)
NumOfInt(n) == IF n < 10 THEN <<n>> ELSE Append(NumOfInt(n \div 10), n % 10)

\* format!("{:0width$}", n): zero-padded on the left to at least width bytes
FormatPadded(n, width) ==
    [i \in 1..(IF Len(n) < width THEN width - Len(n) ELSE 0) |-> 48] \o FormatNum(n)

\* 9999999999
SernoLimit == <<9, 9, 9, 9, 9, 9, 9, 9, 9, 9>>

\* the serial cut to the last 10 digits of a longer value
EncodeSerno_LowDigits(auth_serno) ==
    IF ~NumLE(auth_serno, SernoLimit)
    THEN Drop(FormatNum(auth_serno), Len(auth_serno) - 10)
    ELSE FormatPadded(auth_serno, 10)

\* if self.auth_serno > 9999999999 { ..[0..10] } else { format!("{:010}", ..) }
EncodeSerno(auth_serno) ==
    IF ~NumLE(auth_serno, SernoLimit)
    THEN Take(FormatNum(auth_serno), 10)
    ELSE FormatPadded(auth_serno, 10)

\* the largest number of 4 and of 2 packed decimal digits
MaxBcd4 == 9999

MaxBcd2 == 99

\* util::encode_field_to_buf: Ok(the buffer with the field appended) or the error
encode_field_to_buf(tag, value, b) ==
    IF tag.id > MaxBcd4 \/ tag.sub > MaxBcd2 \/ ByteLen(value) > MaxBcd4 THEN Bounds
    ELSE Ok(b \o Tag_encode(tag) \o encode_bcd_x4(ByteLen(value)) \o value)

\* buf.put(saf); buf.put(source); buf.put(mti); buf.put(serial)
EncodeHeader ==
    /\ pc = "header"
    /\ buf' = req.saf \o req.source \o req.mti \o EncodeSerno(req.auth_serno)
    /\ loc' = [i |-> 1]
    /\ pc' = "tags"
    /\ UNCHANGED <<input, data, resp, req, result>>

RegularOf(k) == Regular(k[1])

IsoOf(k) == Iso(k[1])

IsoSubfieldOf(k) == IsoSubfield(k[1], k[2])

\* the tag built from a key of the map iterated at pc = at
TagOfKey(at, k) ==
    CASE at = "tags" -> RegularOf(k)
      [] at = "iso_fields" -> IsoOf(k)
      [] at = "iso_subfields" -> IsoSubfieldOf(k)

\* a loop that drops the result of encode_field_to_buf instead of returning
\* its error
EncodeLoop_ErrorDropped(at, entries, next) ==
    /\ pc = at
    /\ IF loc.i <= Len(entries) THEN
            LET e == entries[loc.i]
                r == encode_field_to_buf(TagOfKey(at, e.k), e.v, buf)
            IN  /\ buf' = IF r.tag = "ok" THEN r.val ELSE buf
                /\ loc' = [i |-> loc.i + 1]
                /\ UNCHANGED <<pc, result>>
       ELSE /\ pc' = next
            /\ loc' = [i |-> 1]
            /\ UNCHANGED <<buf, result>>
    /\ UNCHANGED <<input, data, resp, req>>

\* one iteration of the loop over the map at pc, or its end
EncodeLoop(at, entries, next) ==
    /\ pc = at
    /\ IF loc.i <= Len(entries) THEN
            LET e == entries[loc.i]
                r == encode_field_to_buf(TagOfKey(at, e.k), e.v, buf)
            IN  IF r.tag # "ok" THEN Abort(r) /\ UNCHANGED <<buf, loc>>
                ELSE /\ buf' = r.val
                     /\ loc' = [i |-> loc.i + 1]
                     /\ UNCHANGED <<pc, result>>
       ELSE /\ pc' = next
            /\ loc' = [i |-> 1]
            /\ UNCHANGED <<buf, result>>
    /\ UNCHANGED <<input, data, resp, req>>

\* for (k, v) in self.tags.iter() { encode_field_to_buf(Tag::Regular(*k), &v, &mut buf)?; }
EncodeTags == EncodeLoop("tags", req.tags, "iso_fields")

\* for (k, v) in self.iso_fields.iter() { .. Tag::Iso(*k) .. }
EncodeIsoFields == EncodeLoop("iso_fields", req.iso_fields, "iso_subfields")

\* for ((k, k1), v) in self.iso_subfields.iter() { .. Tag::IsoSubfield(*k, *k1) .. }
EncodeIsoSubfields == EncodeLoop("iso_subfields", req.iso_subfields, "frame")

\* buf_res.put(format!("{:05}", buf.len())); buf_res.put(buf); Ok(buf_res.into())
EncodeFrame ==
    /\ pc = "frame"
    /\ pc' = "done"
    /\ result' = Ok(FormatPadded(NumOfInt(ByteLen(buf)), 5) \o buf)
    /\ UNCHANGED <<input, data, loc, resp, req, buf>>

EncodeNext ==
    \/ EncodeHeader
    \/ EncodeTags
    \/ EncodeIsoFields
    \/ EncodeIsoSubfields
    \/ EncodeFrame

\* the most insertions that build a generated request
MaxInserts == 3

Ins(tag, v) == [tag |-> tag, v |-> v]

InsertPool ==
    { Ins(Regular(1), <<67>>), Ins(Regular(1), <<68>>), Ins(Regular(22), Ascii(<<6, 4, 3>>)),
      Ins(Iso(2), Ascii(<<5, 5, 5, 5>>)), Ins(Iso(1), <<>>),
      Ins(IsoSubfield(3, 2), <<97>>), Ins(IsoSubfield(3, 1), <<98>>),
      Ins(IsoSubfield(2, 9), <<99>>) }

\* the largest u16 (an id) and the largest u8 (a subfield index)
U16MaxInt == 65535

U8MaxInt == 255

\* fields with an id, a subfield index or a length that packed decimal cannot hold
OutOfRange ==
    { Ins(Regular(MaxBcd4 + 1), <<120>>), Ins(IsoSubfield(3, MaxBcd2 + 1), <<120>>),
      Ins(Iso(U16MaxInt), <<120>>), Ins(IsoSubfield(3, U8MaxInt), <<>>),
      Ins(Iso(2), <<Run(120, MaxBcd4 + 1)>>), Ins(Regular(1), <<121, Run(120, MaxBcd4)>>) }

\* fields with the largest id, subfield index and length that packed decimal holds
Largest ==
    { Ins(Regular(MaxBcd4), <<120>>), Ins(IsoSubfield(MaxBcd4, MaxBcd2), <<120>>),
      Ins(Iso(2), <<Run(120, MaxBcd4)>>) }

\* the request after the insertions ins, in that order
RECURSIVE Built(_, _)
Built(r, ins) ==
    IF ins = <<>> THEN r
    ELSE Built(InsertField(r, Head(ins).tag, Head(ins).v), Tail(ins))

SernoPool ==
    { Zero, <<5>>, <<6, 0, 0, 7, 0, 4, 0, 9, 7, 9>>, SernoLimit,
      <<1, 0, 0, 0, 0, 0, 0, 0, 0, 0, 0>>,
      <<7, 8, 7, 7, 7, 0, 6, 9, 6, 5, 6, 8, 7, 1, 9, 2, 0, 2, 3>>, U64Max }

Scalars(saf, source, mti) == [saf |-> saf, source |-> source, mti |-> mti]

PlainScalars == Scalars(<<89>>, <<77>>, Ascii(<<0, 2, 0, 0>>))

ScalarPool ==
    { PlainScalars, Scalars(<<>>, <<77>>, Ascii(<<0, 2, 0, 0>>)),
      Scalars(<<89, 78>>, <<195, 169>>, Ascii(<<0, 2>>)) }

\* the longest body whose length 5 digits state
MaxBody == 99999

\* a SAF that makes the body MaxBody bytes long, and one byte longer
LongScalars ==
    {Scalars(<<Run(89, n)>>, <<77>>, Ascii(<<0, 2, 0, 0>>)) : n \in {MaxBody - 15, MaxBody - 14}}

EncodeStart(sc, serno, ins) ==
    /\ input = [ins |-> ins]
    /\ pc = "header"
    /\ data = <<>>
    /\ loc = [i |-> 1]
    /\ resp = NoResponse
    /\ req = Built(SigmaRequest_new(sc.saf, sc.source, sc.mti, serno), ins)
    /\ buf = <<>>
    /\ result = None

EncodeInit ==
    \/ \E sc \in ScalarPool, n \in SernoPool : EncodeStart(sc, n, <<>>)
    \/ \E sc \in LongScalars : EncodeStart(sc, <<5>>, <<>>)
    \/ \E k \in 0..MaxInserts : \E ins \in [1..k -> InsertPool] :
          \E n \in {<<5>>, U64Max} : EncodeStart(PlainScalars, n, ins)
    \/ \E k \in 0..1 : \E ins \in [1..k -> InsertPool] : \E o \in OutOfRange \cup Largest :
          \/ EncodeStart(PlainScalars, <<5>>, ins \o <<o>>)
          \/ EncodeStart(PlainScalars, <<5>>, <<o>> \o ins)

SpecEncode == EncodeInit /\ [][EncodeNext]_vars

----------------------------------------------------------------------------
(* SigmaRequest::from_json_value(..)?.encode() *)

\* let r = SigmaRequest::from_json_value(..).unwrap(); r.encode()
EncodeCall ==
    /\ pc = "done"
    /\ result.tag = "ok"
    /\ buf = <<>>
    /\ req' = result.val
    /\ pc' = "header"
    /\ loc' = [i |-> 1]
    /\ result' = None
    /\ UNCHANGED <<input, data, resp, buf>>

RoundTripNext ==
    \/ FromJsonNext
    \/ EncodeCall
    \/ EncodeNext

\* SAF, SRC and MTI of 0 to 4 bytes
RoundTripSafs == {JString(<<89>>), JString(<<>>), JString(<<89, 78>>)}

RoundTripSrcs == {JString(<<77>>), JString(<<195, 169>>)}

RoundTripMtis == {JString(Ascii(<<0, 2, 0, 0>>)), JString(Ascii(<<0, 2>>))}

\* serials of 1, 10, 11, 19 and 20 digits, and none
RoundTripSernos ==
    PlainSernos \cup
    { JPosInt(<<5>>), JString(Ascii(<<0, 6, 0, 0, 7, 0, 4, 0, 9, 7>>)),
      JPosInt(<<1, 0, 0, 0, 0, 0, 0, 0, 0, 0, 0>>),
      JPosInt(<<7, 8, 7, 7, 7, 0, 6, 9, 6, 5, 6, 8, 7, 1, 9, 2, 0, 2, 3>>),
      JPosInt(U64Max) }

\* ten fields of MaxBcd4 bytes each, a body of 100066 bytes
LongFields ==
    [k \in {"T0001", "T0002", "T0003", "T0004", "T0005", "T0006", "T0007", "T0022",
            "i002", "i041"} |-> JString(<<Run(120, MaxBcd4)>>)]

RoundTripInit ==
    \/ \E a \in RoundTripSafs, b \in RoundTripSrcs, c \in RoundTripMtis :
          \E se \in RoundTripSernos : \E g \in Named(1) :
             FromJsonStart(Input(a, b, c, se, g))
    \/ \E se \in PlainSernos : \E g \in Named(MaxExtra) :
          FromJsonStart(Input(JString(<<89>>), JString(<<77>>),
                              JString(Ascii(<<0, 2, 0, 0>>)), se, g))
    \/ FromJsonStart(Input(JString(<<89>>), JString(<<77>>),
                           JString(Ascii(<<0, 2, 0, 0>>)), JPosInt(<<5>>), LongFields))

SpecRoundTrip == RoundTripInit /\ [][RoundTripNext]_vars

----------------------------------------------------------------------------
(* Properties of SigmaRequest::encode *)

\* the items of the header: saf, source, mti and the 10 bytes of the serial
HeaderLen == Len(req.saf) + Len(req.source) + Len(req.mti) + 10

\* the output after its length prefix: the body encode assembled in buf
BodyOf(out) == Drop(out, Len(out) - Len(buf))

\* the fields a sequence of insertions leaves: the last value of each tag
FieldSet(ins) ==
    {ins[i] : i \in {j \in DOMAIN ins : \A l \in (j + 1)..Len(ins) : ins[l].tag # ins[j].tag}}

VariantRank(tag) ==
    CASE tag.variant = "Regular" -> 1 [] tag.variant = "Iso" -> 2 [] OTHER -> 3

\* Regular before Iso before IsoSubfield, then ascending id, then ascending sub
TagBefore(a, b) ==
    \/ VariantRank(a) < VariantRank(b)
    \/ VariantRank(a) = VariantRank(b) /\ a.id < b.id
    \/ VariantRank(a) = VariantRank(b) /\ a.id = b.id /\ a.sub < b.sub

\* the fields of S on the wire, in that order
RECURSIVE InOrder(_)
InOrder(S) ==
    IF S = {} THEN <<>>
    ELSE LET f == CHOOSE x \in S : \A y \in S \ {x} : TagBefore(x.tag, y.tag)
         IN  Tag_encode(f.tag) \o encode_bcd_x4(ByteLen(f.v)) \o f.v \o InOrder(S \ {f})

\* C6: after the header encode writes the fields in an order fixed by the
\* field set alone, whatever the order they were inserted in: the Regular
\* fields by ascending id, then the Iso fields by ascending id, then the
\* IsoSubfield fields by ascending (id, sub); so requests with equal scalars
\* and equal mappings encode to the same bytes.
C6_FieldOrder ==
    (pc = "done" /\ result.tag = "ok") =>
        Drop(BodyOf(result.val), HeaderLen) = InOrder(FieldSet(input.ins))

\* three fields inserted in the reverse of the order they are written in
C6_Witness ==
    /\ pc = "done"
    /\ result.tag = "ok"
    /\ Len(input.ins) = 3
    /\ input.ins[1].tag = IsoSubfield(3, 2)
    /\ input.ins[2].tag = Iso(2)
    /\ input.ins[3].tag = Regular(1)

\* C7: encode writes the serial as exactly 10 ASCII digits: the value
\* zero-padded on the left when it has at most 10 digits, its 10 most
\* significant digits when it has more.
C7_SerialTenDigits ==
    (pc = "done" /\ result.tag = "ok") =>
        LET n == req.auth_serno
            pad == 10 - Len(n)
        IN  SubSeq(BodyOf(result.val), HeaderLen - 9, HeaderLen) =
              [i \in 1..10 |->
                 48 + (IF Len(n) > 10 THEN n[i] ELSE IF i <= pad THEN 0 ELSE n[i - pad])]

\* the serial of tests::serializing_generated_auth_serno, cut to 7877706965
C7_Witness ==
    /\ pc = "done"
    /\ result.tag = "ok"
    /\ Len(req.auth_serno) = 19
    /\ SubSeq(BodyOf(result.val), HeaderLen - 9, HeaderLen) =
          Ascii(<<7, 8, 7, 7, 7, 0, 6, 9, 6, 5>>)

\* C8: an encode that succeeds starts with exactly 5 ASCII digits whose value
\* is the number of bytes after them, and a body longer than 99999 bytes
\* makes encode fail with Error::Bounds.
C8_LengthPrefix ==
    pc = "done" =>
        /\ result.tag = "ok" =>
              /\ Len(result.val) >= 5
              /\ AllDigits(Take(result.val, 5))
              /\ DecOf(Take(result.val, 5)) = NumOfInt(ByteLen(Drop(result.val, 5)))
        /\ ByteLen(buf) > MaxBody => result = Bounds

\* the fields a request holds, as insertions
FieldsOf(r) ==
    {Ins(Regular(r.tags[i].k[1]), r.tags[i].v) : i \in DOMAIN r.tags}
    \cup {Ins(Iso(r.iso_fields[i].k[1]), r.iso_fields[i].v) : i \in DOMAIN r.iso_fields}
    \cup {Ins(IsoSubfield(r.iso_subfields[i].k[1], r.iso_subfields[i].k[2]),
               r.iso_subfields[i].v) : i \in DOMAIN r.iso_subfields}

\* the field does not fit the 4 digits of the id, the 2 of the subfield
\* index or the 4 of the length
Unfit(f) == ByteLen(f.v) > 9999 \/ f.tag.id > 9999 \/ f.tag.sub > 99

----------------------------------------------------------------------------
(* Properties of SigmaRequest::from_json_value *)

Mandatory == <<"SAF", "SRC", "MTI">>

IsAbsent(k) == k \notin DOMAIN input.m

NotString(k) == ~IsAbsent(k) /\ input.m[k].t # "String"

\* C9: from_json_value returns a request only when SAF, SRC and MTI are all
\* present strings; the first of them, in that order, that is absent gives
\* MissingField naming it and that is present but no string gives
\* IncorrectFieldData naming it; a value that is no object gives IncorrectData.
C9_MandatoryFields ==
    pc = "done" =>
        IF input.t # "Object" THEN result = IncorrectData
        ELSE /\ \A i \in 1..3 :
                  (/\ IsAbsent(Mandatory[i]) \/ NotString(Mandatory[i])
                   /\ \A j \in 1..(i - 1) :
                         ~IsAbsent(Mandatory[j]) /\ ~NotString(Mandatory[j]))
                    => result = IF IsAbsent(Mandatory[i])
                                THEN MissingField(Mandatory[i])
                                ELSE incorrect_field_data(Mandatory[i])
             /\ result.tag = "ok" =>
                  /\ \A i \in 1..3 : ~IsAbsent(Mandatory[i]) /\ ~NotString(Mandatory[i])
                  /\ result.val.saf = input.m["SAF"].s
                  /\ result.val.source = input.m["SRC"].s
                  /\ result.val.mti = input.m["MTI"].s

\* SAF is a string, SRC is a number and MTI is absent: the error names SRC
C9_Witness ==
    /\ pc = "done"
    /\ input.t = "Object"
    /\ ~IsAbsent("SAF") /\ ~NotString("SAF")
    /\ NotString("SRC")
    /\ IsAbsent("MTI")
    /\ result = incorrect_field_data("SRC")

MandatoryOk == \A i \in 1..3 : ~IsAbsent(Mandatory[i]) /\ ~NotString(Mandatory[i])

\* C10: a present Serno is accepted exactly when it is a u64 number or a
\* string of decimal digits only whose value fits u64, and auth_serno is then
\* that value; any other Serno gives IncorrectFieldData naming Serno.
C10_SernoDigitsOnly ==
    (pc = "done" /\ input.t = "Object" /\ MandatoryOk /\ ~IsAbsent("Serno")) =>
        LET x == input.m["Serno"]
        IN  IF x.t = "PosInt" THEN
                result # incorrect_field_data("Serno") /\ req.auth_serno = x.n
            ELSE IF x.t = "String" /\ Fits(x.s, U64Max) THEN
                result # incorrect_field_data("Serno") /\ req.auth_serno = DecOf(x.s)
            ELSE result = incorrect_field_data("Serno")

\* the names of the input besides SAF, SRC, MTI and Serno
ExtraNames == (DOMAIN input.m) \ {"SAF", "SRC", "MTI", "Serno"}

\* the mandatory fields and the Serno of the input are accepted
ScalarsOk ==
    /\ input.t = "Object"
    /\ MandatoryOk
    /\ ~IsAbsent("Serno") => SernoOf(input.m["Serno"]).tag = "ok"

\* the decimal string of a number
DecimalString(x) == IF x.t = "NegInt" THEN <<45>> \o FormatNum(x.n) ELSE FormatNum(x.n)

\* the error the claim gives a name, None when it gives none
NameError(k, numeric) ==
    IF Tag_from_str(k).tag # "ok" THEN IncorrectTag
    ELSE IF input.m[k].t \notin {"String"} \cup numeric THEN incorrect_field_data(k)
    ELSE None

\* the values a request holds under a tag, in the mapping of its variant
Held(r, tag) ==
    LET m == CASE tag.variant = "Regular" -> r.tags
               [] tag.variant = "Iso" -> r.iso_fields
               [] OTHER -> r.iso_subfields
        key == IF tag.variant = "IsoSubfield" THEN <<tag.id, tag.sub>> ELSE <<tag.id>>
    IN  {m[i].v : i \in {j \in DOMAIN m : m[j].k = key}}

\* the named fields are handled as stated, numbers being the kinds numeric
NamedFieldsStored(numeric) ==
    (pc = "done" /\ ScalarsOk) =>
        LET bad == {k \in ExtraNames : NameError(k, numeric) # None}
            tagged == {Tag_from_str(k).val : k \in ExtraNames}
        IN  IF bad # {} THEN result \in {NameError(k, numeric) : k \in bad}
            ELSE /\ result.tag = "ok"
                 /\ \A k \in ExtraNames :
                       Held(result.val, Tag_from_str(k).val) =
                         {IF input.m[k].t = "String" THEN input.m[k].s
                          ELSE DecimalString(input.m[k])}
                 /\ Len(result.val.tags) + Len(result.val.iso_fields)
                       + Len(result.val.iso_subfields) = Cardinality(tagged)

\* C11: every name besides SAF, SRC, MTI and Serno is resolved to a Tag and
\* its value is held under that tag in the mapping of the tag's variant and
\* nowhere else: a string as it is, a number (of any kind) as its decimal
\* string; a name of a value of another type gives IncorrectFieldData naming
\* it, a name that resolves to no Tag gives IncorrectTag, and then no request
\* is returned.
C11_NamedFields == NamedFieldsStored({"PosInt", "NegInt", "Float"})

\* C11, amended: as C11, but the only numbers stored (as their decimal
\* string) are the non-negative integers u64 holds; a negative or fractional
\* number gives IncorrectFieldData naming its key, as a value of any other
\* type that is no string does.
C11_NamedFieldsU64 == NamedFieldsStored({"PosInt"})

\* a request returned with the number 643 held as "643" under Iso(41) and a
\* string held under Regular(1)
C11_Witness ==
    /\ pc = "done"
    /\ result.tag = "ok"
    /\ ExtraNames = {"i041", "T0001"}
    /\ input.m["i041"] = JPosInt(<<6, 4, 3>>)
    /\ Held(result.val, Iso(41)) = {<<54, 52, 51>>}
    /\ Held(result.val, Regular(1)) = {<<67>>}

\* the output read by the request layout gives back the scalars of the request
HeaderRecovered(out) ==
    /\ Len(out) >= 21
    /\ AllDigits(Take(out, 5))
    /\ <<out[6]>> = req.saf
    /\ <<out[7]>> = req.source
    /\ SubSeq(out, 8, 11) = req.mti
    /\ AllDigits(SubSeq(out, 12, 21))
    /\ DecOf(SubSeq(out, 12, 21)) = req.auth_serno

\* encode of the request from_json_value built returned bytes
Encoded == pc = "done" /\ buf # <<>> /\ result.tag = "ok"

\* C14: the bytes encode returns for a request that from_json_value built,
\* read as 5 digits of length, 1 byte of SAF, 1 byte of SRC, 4 bytes of MTI
\* and 10 digits of serial, give back the saf, source, mti and auth_serno of
\* the request.
C14_HeaderRoundTrip == Encoded => HeaderRecovered(result.val)

----------------------------------------------------------------------------
(* Properties of SigmaResponse::decode *)

\* the bytes the step at pc takes from the buffer
Need ==
    CASE pc = "msg_len" -> 5
      [] pc = "body" -> loc.msg_len
      [] pc = "mti" -> 4
      [] pc = "serno" -> 10
      [] pc = "tag" -> 4
      [] pc = "len" -> 2
      [] pc = "data" -> loc.len
      [] OTHER -> 0

\* C1: no step of decode reads past the end of the buffer (no slicing panic),
\* and a step that needs more bytes than remain (the 5-byte prefix, the
\* declared body, the mti, the serial, a tag header, a length, the declared
\* payload) ends decode with Error::Bounds and no response.
C1_NeverReadsPastEnd ==
    [][/\ result' # Panic
       /\ Need > Len(data) => pc' = "done" /\ result' = Bounds]_vars

\* a payload declared longer than what is left of the body, after a reason
\* field was read
C1_Witness ==
    /\ pc = "done"
    /\ result = Bounds
    /\ resp.reason # Zero
    /\ Len(data) >= 4
    /\ loc.len > Len(data)

\* the 10 bytes are decimal digits between optional whitespace
SerialDigits(s, signs) ==
    LET t == Trim(s)
    IN  AllDigits(IF t # <<>> /\ t[1] \in signs THEN Tail(t) ELSE t)

\* the value of the digits of a serial
SerialValue(s) == DecOf(SelectSeq(s, IsDigit))

\* the step that reads a whole serial takes it exactly when it is digits
\* between optional whitespace, after one of signs if any
SerialAccepted(signs) ==
    (pc = "serno" /\ Len(data) >= 10) =>
        IF SerialDigits(Take(data, 10), signs)
        THEN /\ pc' = "loop"
             /\ result' = None
             /\ resp'.auth_serno = SerialValue(Take(data, 10))
        ELSE pc' = "done" /\ result' = incorrect_field_data("Serno")

\* C13: decode accepts the 10-byte serial exactly when it is decimal digits
\* with optional leading and trailing whitespace, auth_serno being the value
\* of the digits; a serial with any other byte, or with no digit, ends
\* decode with IncorrectFieldData naming Serno.
C13_SerialDigitsOnly == [][SerialAccepted({})]_vars

\* the bytes of mti and serial at the head of the body
BodyHeaderLen == 4 + 10

\* an iteration that ends without an error has taken at least 6 bytes
IterationTakesSix ==
    (pc = "match" /\ pc' = "loop") => Len(data') + 6 + loc.len = loc.left

\* the iterations entered, the last included, against the bytes of the body
IterationsBounded ==
    /\ 6 * loc.iters <= loc.msg_len
    /\ pc = "loop" => Len(data) + 6 * loc.iters <= loc.msg_len - BodyHeaderLen

\* decode has returned Ok or an error
Returned == pc = "done" /\ result.tag \in {"ok", "err"}

\* a measure of the work decode has left: the bytes not yet taken, and the
\* place in the body of the function
Measure ==
    IF pc = "done" THEN 0
    ELSE Len(data) +
         (CASE pc = "msg_len" -> 10 [] pc = "body" -> 9 [] pc = "mti" -> 8
            [] pc = "serno" -> 7 [] pc = "loop" -> 2 [] pc = "tag" -> 1
            [] pc = "len" -> 3 [] pc = "data" -> 4 [] pc = "match" -> 3)

\* decode either has returned or is at a step of DecodeNext, each of which
\* can be taken whatever the buffer holds
Running ==
    \/ Returned
    \/ pc \in {"msg_len", "body", "mti", "serno", "loop", "tag", "len", "data", "match"}

\* C15: decode returns on every input: an iteration of its loop that gives no
\* error takes the 4 bytes of the tag, the 2 of the length and the payload
\* from what is left of the body, so what is left gets shorter by 6 bytes or
\* more and the iterations number at most body length / 6; every step
\* lowers a measure that is never negative, and decode stops only when it
\* has returned Ok or an error.
C15_DecodeTerminates ==
    /\ [][IterationTakesSix /\ Measure' < Measure]_vars
    /\ [](IterationsBounded /\ Measure >= 0 /\ Running)

\* decode returned Ok after two iterations, the second on an empty payload
C15_Witness ==
    /\ Returned
    /\ result.tag = "ok"
    /\ loc.iters = 2
    /\ loc.left = 6

Interpreted == {Regular(31), Regular(32), Regular(48)}

\* C2: a field that was read whole and whose tag is none of Regular(31),
\* Regular(32), Regular(48) does not end decode: the loop goes on with
\* reason, fees and adata (the whole response) unchanged.
C2_UnknownTagSkipped ==
    [][pc = "match" /\ loc.tag \notin Interpreted
          => pc' = "loop" /\ resp' = resp /\ result' = None /\ data' = data]_vars

\* decode returned Ok after skipping a non-empty Iso(31) field that followed
\* a reason field
C2_Witness ==
    /\ pc = "done"
    /\ result.tag = "ok"
    /\ loc.tag = Iso(31)
    /\ loc.data_src # <<>>
    /\ result.val.reason = <<8, 4, 9, 5>>

WithTag(fs, tag) == SelectSeq(fs, LAMBDA f : f.tag = tag)

Last(s) == s[Len(s)]

\* the FeeData a valid fee payload states
FeeOf(p) == FeeData(DecOf(SubSeq(p, 1, 4)), DecOf(SubSeq(p, 5, 7)), DecOf(Drop(p, 7)))

\* C3: for a response framed exactly that decode accepts, fees holds one
\* FeeData per Regular(32) field in wire order, adata is the text of the
\* payload of the last Regular(48) field (absent when there is none) and
\* reason is the value of the last Regular(31) field (0 when there is none).
C3_DecodeIsFold ==
    (pc = "done" /\ result.tag = "ok" /\ input.exact) =>
        LET fees == WithTag(input.fields, Regular(32))
            adatas == WithTag(input.fields, Regular(48))
            reasons == WithTag(input.fields, Regular(31))
        IN  /\ result.val.fees = [i \in 1..Len(fees) |-> FeeOf(fees[i].payload)]
            /\ result.val.adata =
                 IF adatas = <<>> THEN NoString
                 ELSE Some(FromUtf8Lossy(Last(adatas).payload))
            /\ result.val.reason =
                 IF reasons = <<>> THEN Zero ELSE DecOf(Last(reasons).payload)

\* two different fees decoded, in wire order
C3_Witness ==
    /\ pc = "done"
    /\ result.tag = "ok"
    /\ input.exact
    /\ Len(result.val.fees) = 2
    /\ result.val.fees[1].amount = <<3, 0, 0>>
    /\ result.val.fees[2].amount = Zero

IsU32Text(p) == AllDigits(p) /\ NumLE(DecOf(p), U32Max)

IsFeeText(p) ==
    /\ Len(p) >= 8
    /\ AllDigits(p)
    /\ NumLE(DecOf(Drop(p, 7)), U64Max)

\* a field decode reads without an error
ValidField(f) ==
    /\ f \in FramedFields
    /\ f.tag = Regular(31) => IsU32Text(f.payload)
    /\ f.tag = Regular(32) => IsFeeText(f.payload)

BadReason(f) == f \in FramedFields /\ f.tag = Regular(31) /\ ~IsU32Text(f.payload)

\* the 10 serial bytes of an input: digits with surrounding ASCII blanks
SerialOk(bytes) ==
    /\ Len(bytes) >= 19
    /\ AllDigits(Trim(SubSeq(bytes, 10, 19)))

\* C4: in a response framed exactly with a valid serial, a Regular(31) field
\* whose payload is not the decimal text of a u32, preceded by valid fields
\* only, makes decode return IncorrectFieldData naming "reason", whatever
\* follows it.
C4_BadReasonFails ==
    (/\ pc = "done"
     /\ input.exact
     /\ SerialOk(input.bytes)
     /\ \E i \in 1..Len(input.fields) :
           /\ BadReason(input.fields[i])
           /\ \A j \in 1..(i - 1) : ValidField(input.fields[j]))
        => result = incorrect_field_data("reason")

\* a bad reason after a fee that was read, before a field never reached
C4_Witness ==
    /\ pc = "done"
    /\ input.exact
    /\ Len(input.fields) = 2
    /\ input.fields[1].tag = Regular(32)
    /\ BadReason(input.fields[2])
    /\ resp.fees # <<>>
    /\ result = incorrect_field_data("reason")

====
